---- MODULE Spec2Model ----
(***************************************************************************)
(* A model of mdd, the Manjaro Data Donor (src/mdd.py).                    *)
(*                                                                         *)
(* The module holds one specification per component of the collector:      *)
(*   SpecDisks  the block-device tree walker of get_disks_metrics          *)
(*   SpecRecon  the reconciliation of inxi with the fallback tools in      *)
(*              get_cpu_info, get_graphics_info and get_desktop_info       *)
(***************************************************************************)
EXTENDS Integers, Sequences, FiniteSets, TLC

(***************************************************************************)
(* Bounds of the model.                                                    *)
(***************************************************************************)
\* Deepest nesting of lsblk nodes that is walked (device = depth 1).
MaxDepth == 3
\* Sizes of block devices range over 1..MaxSize bytes.
MaxSize == 2
\* Most entries get_disks_metrics collects before it returns.
MaxDisks == 1
\* Most items that are let vary in one category of the inxi cache.
MaxItems == 1
\* Most lines of the text a fallback tool (lscpu, xrandr) prints.
MaxLines == 3

(***************************************************************************)
(* Values shared by all components.                                        *)
(***************************************************************************)
\* Python's None.
None == [tag |-> "None"]

\* 1024 ** 3, the divisor of every size_gb.
GiB == 1073741824

\* bytes / (1024 ** 3): the quotient is kept exact as numerator and divisor.
SizeGb(bytes) == [num |-> bytes, den |-> GiB]

Min(a, b) == IF a <= b THEN a ELSE b

\* A Python str, as the sequence of the pieces the code can tell apart.
S(tokens) == [str |-> tokens]
\* A Python str of one piece.
Str(piece) == [str |-> <<piece>>]
\* A Python float.
F(n) == [float |-> n]

EmptyStr == S(<<>>)
NA == Str("N/A")

\* a + b on str.
Concat(a, b) == S(a.str \o b.str)

\* Python's truth value of None, a str or a float.
Truthy(v) == v \notin {None, EmptyStr, F(0)}

\* val in (None, "", "N/A"), lines 308 and 468.
IsAbsent(val) == val \in {None, EmptyStr, NA}

\* A function that raised, and one that returned.
Raise(exc) == [raised |-> TRUE, exc |-> exc]
Return(value) == [raised |-> FALSE, value |-> value]

\* All sequences over a set up to a length.
SeqUpTo(set, n) == UNION {[1..k -> set] : k \in 0..n}

VARIABLES
    stack,      \* get_disks_metrics: the active calls of traverse, outermost first
    results,    \* get_disks_metrics: the dict of the device being walked
    disks,      \* get_disks_metrics: the list being returned
    wpc,        \* get_disks_metrics: where the walk stands
    inxi,       \* the module global inxi, the cache prepare_inxi fills
    irun,       \* how the run of inxi that prepare_inxi made went
    env,        \* what the fallback tools and the environment answer
    ret,        \* what the domain function called last returned or raised
    rpc,        \* where the run of one domain function stands
    dpc,        \* check_windows_dualboot: where the detection stands
    dres,       \* the local result: what the last subprocess.run returned
    dlog,       \* the external commands the detection has run, and how each ended
    dret,       \* what check_windows_dualboot returned or raised, and where
    pc,         \* main: where the run stands
    args,       \* main: the parsed command line
    host,       \* what the machine is and has installed
    machine_id, \* the content of /etc/machine-id, None when it cannot be read
    device_id,  \* get_device_data: the value of meta["device_id"]
    meta,       \* get_device_data: the keys of data["meta"]
    called,     \* get_device_data: the domain functions called so far
    sections,   \* get_device_data: the domain functions that have returned
    degraded,   \* the report fields that hold a default for want of their probe
    probed,     \* the external commands run inside get_device_data
    failures,   \* how many external commands have failed or hung in this run
    cause,      \* the command and failure an exception or a block came from
    document,   \* main: the data get_device_data returned
    response,   \* http_post_info: what requests.post came to
    posts,      \* how many times requests.post has been called
    printed,    \* main: whether the document has been printed
    exit_status, \* how the process ended
    gpc,        \* mddgui: where the front-end stands
    config,     \* mddgui: the module global config
    conf_file,  \* mddgui: the content of ~/.config/self.conf, None when there is none
    sysdata,    \* MDD.sysdata: the document the window holds
    config_modified,  \* MDD.config_modified
    checkEnableTimer, \* whether the box "Enable Timer" is checked
    units,      \* what generate_service_files wrote last, None before
    timer,      \* what systemctl --user was last told about self.timer
    posted,     \* the documents accepted handed to http_post_info
    clicks      \* how many times the user has clicked an option

diskVars == <<stack, results, disks, wpc>>

reconVars == <<inxi, irun, env, ret, rpc>>

bootVars == <<dpc, dres, dlog, dret>>

mainVars == <<pc, args, host, machine_id, device_id, meta, called, sections, degraded, probed, failures,
              cause, document, response, posts, printed, exit_status>>

vars == <<stack, results, disks, wpc, inxi, irun, env, ret, rpc, dpc, dres, dlog, dret,
          pc, args, host, machine_id, device_id, meta, called, sections, degraded, probed, failures,
          cause, document, response, posts, printed, exit_status,
          gpc, config, conf_file, sysdata, config_modified, checkEnableTimer, units, timer,
          posted, clicks>>

guiVars == <<gpc, config, conf_file, sysdata, config_modified, checkEnableTimer, units, timer,
             posted, clicks>>

\* What the walker leaves alone, and what the reconciliation leaves alone.
notDiskVars == <<reconVars, bootVars, mainVars, guiVars>>
notReconVars == <<diskVars, bootVars, mainVars, guiVars>>
notBootVars == <<diskVars, reconVars, mainVars, guiVars>>
notMainVars == <<diskVars, bootVars, irun, env, ret, rpc, guiVars>>
notGuiVars == <<diskVars, bootVars, mainVars, env, ret, rpc>>

\* The walker is not running.
DisksOff ==
    /\ stack = <<>>
    /\ results = None
    /\ disks = <<>>
    /\ wpc = "off"

\* main is not running.
MainOff ==
    /\ pc = "off"
    /\ args = None
    /\ host = {}
    /\ machine_id = None
    /\ device_id = None
    /\ meta = {}
    /\ called = {}
    /\ sections = {}
    /\ degraded = {}
    /\ probed = {}
    /\ failures = 0
    /\ cause = None
    /\ document = None
    /\ response = None
    /\ posts = 0
    /\ printed = FALSE
    /\ exit_status = None

\* The front-end is not running.
GuiOff ==
    /\ gpc = "off"
    /\ config = None
    /\ conf_file = None
    /\ sysdata = None
    /\ config_modified = FALSE
    /\ checkEnableTimer = FALSE
    /\ units = None
    /\ timer = "untouched"
    /\ posted = <<>>
    /\ clicks = 0

\* The dual-boot detection is not running.
BootOff ==
    /\ dpc = "off"
    /\ dres = None
    /\ dlog = <<>>
    /\ dret = None

\* The reconciliation is not running.
ReconOff ==
    /\ inxi = None
    /\ irun = "not run"
    /\ env = None
    /\ ret = None
    /\ rpc = "off"

(***************************************************************************)
(* The block-device tree walker: get_disks_metrics and its traverse.       *)
(***************************************************************************)
ROOT == "/"
HOME == "/home"

\* One node of lsblk -Jbo NAME,TYPE,SIZE,FSTYPE,MOUNTPOINTS, without its
\* children: those are read one by one while the walk descends.
Blocks ==
    [size : 1..MaxSize,
     type : {"part", "crypt"},
     fstype : {"ext4", "crypto_LUKS"},
     mountpoints : SUBSET {ROOT, HOME}]

\* traverse, lines 563-567: the encryption flag handed down.
traverse_is_crypt_NoInherit(is_crypt, block) ==
    block.type = "crypt" \/ block.fstype = "crypto_LUKS"

traverse_is_crypt(is_crypt, block) ==
    is_crypt \/ block.type = "crypt" \/ block.fstype = "crypto_LUKS"

\* traverse, line 568: the running minimum handed down.
traverse_min_size_OwnSize(min_size, block) == block.size

traverse_min_size(min_size, block) == Min(min_size, block.size)

\* get_mount_data, lines 570-575.
get_mount_data(block, min_size, is_crypt) ==
    [size_gb |-> SizeGb(min_size), fstype |-> block.fstype, crypt |-> is_crypt]

record_mounts_NoSubvol(res, block, min_size, is_crypt) ==
    LET data == get_mount_data(block, min_size, is_crypt)
        r1 == IF ROOT \in block.mountpoints THEN [res EXCEPT !.root = data] ELSE res
    IN  IF HOME \in block.mountpoints THEN [r1 EXCEPT !.home = data] ELSE r1

\* traverse, lines 577-589: what the visit of one node writes into results.
\* has_root is a local of this one visit.
record_mounts(res, block, min_size, is_crypt) ==
    LET has_root == ROOT \in block.mountpoints
        data == get_mount_data(block, min_size, is_crypt)
        r1 == IF has_root THEN [res EXCEPT !.root = data] ELSE res
        r2 == IF HOME \in block.mountpoints
              THEN [r1 EXCEPT !.home =
                        IF has_root
                        THEN [size_gb |-> data.size_gb, fstype |-> data.fstype,
                              crypt |-> data.crypt, subvol |-> TRUE]
                        ELSE data]
              ELSE r1
    IN  IF block.mountpoints # {} THEN r2 ELSE res

\* The frame of one call traverse(block, results, min_size, is_crypt) after
\* lines 563-568 rebound its two accumulators.
Frame(block, min_size, is_crypt) ==
    [block |-> block,
     min_size |-> traverse_min_size(min_size, block),
     is_crypt |-> traverse_is_crypt(is_crypt, block)]

Top == stack[Len(stack)]

\* Lines 601-608: the loop takes the next top-level device, starts a fresh
\* results dict and calls traverse(device, results, size, False).
TraverseDevice ==
    /\ wpc \in {"idle", "next"}
    /\ Len(disks) < MaxDisks
    /\ \E device \in Blocks :
         LET f == Frame(device, device.size, FALSE)
             fresh == [size_gb |-> SizeGb(device.size), root |-> None, home |-> None]
         IN  /\ stack' = <<f>>
             /\ results' = record_mounts(fresh, device, f.min_size, f.is_crypt)
    /\ wpc' = "entered"
    /\ UNCHANGED <<disks, notDiskVars>>

\* Lines 592-594: the call of traverse on the next child of the node on top,
\* with that node's accumulators.
TraverseChild ==
    /\ wpc \in {"entered", "returned"}
    /\ Len(stack) < MaxDepth
    /\ \E child \in Blocks :
         LET f == Frame(child, Top.min_size, Top.is_crypt)
         IN  /\ stack' = Append(stack, f)
             /\ results' = record_mounts(results, child, f.min_size, f.is_crypt)
    /\ wpc' = "entered"
    /\ UNCHANGED <<disks, notDiskVars>>

\* A call of traverse on a child returns: no child is left.
TraverseReturn ==
    /\ wpc \in {"entered", "returned"}
    /\ Len(stack) > 1
    /\ stack' = SubSeq(stack, 1, Len(stack) - 1)
    /\ wpc' = "returned"
    /\ UNCHANGED <<results, disks, notDiskVars>>

\* The call on the device returns; lines 610-611 keep its results when a
\* watched mountpoint was found.
FinishDevice ==
    /\ wpc \in {"entered", "returned"}
    /\ Len(stack) = 1
    /\ stack' = <<>>
    /\ disks' = IF results.root # None \/ results.home # None
                THEN Append(disks, results)
                ELSE disks
    /\ wpc' = "next"
    /\ UNCHANGED <<results, notDiskVars>>

\* Line 613: no device is left, the list is returned.
ReturnDisks ==
    /\ wpc \in {"idle", "next"}
    /\ wpc' = "done"
    /\ UNCHANGED <<stack, results, disks, notDiskVars>>

InitDisks ==
    /\ stack = <<>>
    /\ results = None
    /\ disks = <<>>
    /\ wpc = "idle"
    /\ ReconOff
    /\ BootOff
    /\ MainOff
    /\ GuiOff

NextDisks ==
    \/ TraverseDevice
    \/ TraverseChild
    \/ TraverseReturn
    \/ FinishDevice
    \/ ReturnDisks

SpecDisks == InitDisks /\ [][NextDisks]_vars

(***************************************************************************)
(* Claims about the tree walker, checked under SpecDisks.                  *)
(***************************************************************************)
\* The nodes on the path from the top-level device to the node on top.
PathBlocks == {stack[i].block : i \in 1..Len(stack)}

\* The smallest size on that path.
PathMinSize ==
    CHOOSE m \in {b.size : b \in PathBlocks} :
        \A b \in PathBlocks : m <= b.size

\* An encrypted container, by the words of the claim.
IsEncryptedContainer(b) == b.type = "crypt" \/ b.fstype = "crypto_LUKS"

\* C1: when traverse has just visited a node that carries '/' or '/home',
\* the size_gb recorded for that mountpoint is the minimum size over the
\* nodes on the path from the top-level device to that node, over 1024^3.
C1_SizeIsPathMinimum ==
    wpc = "entered" =>
        /\ ROOT \in Top.block.mountpoints =>
                results.root.size_gb = [num |-> PathMinSize, den |-> 1073741824]
        /\ HOME \in Top.block.mountpoints =>
                results.home.size_gb = [num |-> PathMinSize, den |-> 1073741824]

\* The example of the claim: a device, a smaller crypt container below it,
\* and below that a node of the device's size that mounts '/'.
C1_Witness ==
    /\ wpc = "entered"
    /\ Len(stack) = 3
    /\ stack[1].block.size = 2
    /\ stack[2].block.size = 1
    /\ stack[2].block.type = "crypt"
    /\ stack[3].block.size = 2
    /\ ROOT \in stack[3].block.mountpoints
    /\ results.root.size_gb.num = 1

\* C2: the crypt flag recorded for '/' or '/home' is true exactly when the
\* node that carries the mountpoint or one of its ancestors is an encrypted
\* container; nodes off that path (sibling subtrees) have no say.
C2_CryptIffAncestorEncrypted ==
    wpc = "entered" =>
        LET onPath == \E b \in PathBlocks : IsEncryptedContainer(b)
        IN  /\ ROOT \in Top.block.mountpoints => (results.root.crypt <=> onPath)
            /\ HOME \in Top.block.mountpoints => (results.home.crypt <=> onPath)

\* '/' was recorded as encrypted earlier in this tree, and '/home' is now
\* recorded on a path without any encrypted container: the two lie in
\* different subtrees, and the flag did not leak.
C2_Witness ==
    /\ wpc = "entered"
    /\ Len(stack) >= 2
    /\ HOME \in Top.block.mountpoints
    /\ ROOT \notin Top.block.mountpoints
    /\ results.root # None
    /\ results.root.crypt
    /\ ~results.home.crypt

(***************************************************************************)
(* The inxi cache, lines 26 and 49-80.                                     *)
(*                                                                         *)
(* prepare_inxi leaves the global at None or binds it to the parsed list   *)
(* of categories.  A populated cache is a record of the three categories   *)
(* the domain functions read; a category is None when no key of the list   *)
(* ends with its code, and otherwise the list of its items.  An item holds *)
(* the keys the code looks up, None where the key is missing.              *)
(***************************************************************************)
\* get_inxi_main_cat, lines 75-80.
get_inxi_main_cat(code) == inxi[code]

\* get_inxi_val, lines 68-72.
get_inxi_val(item, code) == item[code]

Cat(items) == [items |-> items]

CpuItems ==
    [model : {None, EmptyStr, NA, Str("i7")},
     variant : {None, Str("Zen")},
     variant1 : {None, Str("Zen2")},
     variant2 : {None, Str("Zen3")}]

NoGraphicsKeys ==
    [Display |-> None, compositor |-> None, dri |-> None, with |-> None,
     Device |-> None, type |-> None, vendor |-> None, driver |-> None,
     Monitor |-> None, model |-> None, res |-> None, hz |-> None,
     dpi |-> None, size |-> None, mapped |-> None]

\* The item of the display server.
DisplayItems ==
    {[NoGraphicsKeys EXCEPT !.Display = Str("wayland"), !.with = Str("Xwayland"),
                            !.compositor = c, !.dri = d] :
        c \in {None, EmptyStr, NA, Str("kwin_wayland")}, d \in {None, Str("iris")}}

\* The item of a graphics adapter.
DeviceItems ==
    {[NoGraphicsKeys EXCEPT !.Device = Str("UHD 620"), !.vendor = Str("Intel"),
                            !.driver = d, !.type = t] :
        d \in {None, Str("i915")}, t \in {None, Str("USB")}}

\* The size inxi prints for a monitor, "527x296mm (20.75x11.65in)".
InxiSize == S(<<"527x296", "mm", " ", "(20.75x11.65in)">>)

\* The item of a monitor.
MonitorItems ==
    {[NoGraphicsKeys EXCEPT !.Monitor = Str("DP-1"), !.model = Str("Dell U2720"),
                            !.mapped = m, !.res = r, !.hz = h, !.size = z] :
        m \in {None, Str("HDMI-1")},
        r \in {None, NA, Str("1920x1080")},
        h \in {None, Str("60")},
        z \in {None, InxiSize}}

SystemItems ==
    [Desktop : {None, Str("KDE")}, dm : {None, Str("sddm")}, wm : {None, Str("kwin")}]

\* The categories of an ordinary run of inxi, kept fixed while one other
\* category varies.
UsualCPU == Cat(<<[model |-> Str("i7"), variant |-> None, variant1 |-> None,
                   variant2 |-> None]>>)
UsualGraphics ==
    Cat(<<[NoGraphicsKeys EXCEPT !.Display = Str("wayland"), !.with = Str("Xwayland"),
                                 !.compositor = Str("kwin_wayland"), !.dri = Str("iris")],
          [NoGraphicsKeys EXCEPT !.Device = Str("UHD 620"), !.vendor = Str("Intel"),
                                 !.driver = Str("i915")]>>)
UsualSystem == Cat(<<[Desktop |-> Str("KDE"), dm |-> Str("sddm"), wm |-> Str("kwin")]>>)

NonEmptySeqUpTo(set, n) == SeqUpTo(set, n) \ {<<>>}

\* The caches the model lets prepare_inxi bind: in each, one category varies.
InxiCaches ==
    {[CPU |-> c, Graphics |-> UsualGraphics, System |-> UsualSystem] :
        c \in {None} \cup {Cat(i) : i \in SeqUpTo(CpuItems, MaxItems)}}
    \cup
    {[CPU |-> UsualCPU, Graphics |-> g, System |-> UsualSystem] :
        g \in {None}
              \cup {Cat(i) : i \in SeqUpTo(DisplayItems, MaxItems)}
              \cup {Cat(i) : i \in NonEmptySeqUpTo(DeviceItems, MaxItems)}
              \cup {Cat(i) : i \in NonEmptySeqUpTo(MonitorItems, MaxItems)}}
    \cup
    {[CPU |-> UsualCPU, Graphics |-> UsualGraphics, System |-> y] :
        y \in {None} \cup {Cat(i) : i \in SeqUpTo(SystemItems, MaxItems)}}

\* The cache prepare_inxi binds when inxi answers.
UsualCache == [CPU |-> UsualCPU, Graphics |-> UsualGraphics, System |-> UsualSystem]

\* Text that is no JSON document.
NotJson == Str("Error 22: Unsupported option")

\* json.loads(result.stdout)
json_loads(stdout) ==
    IF stdout \in {EmptyStr, NotJson} THEN Raise("JSONDecodeError") ELSE Return(stdout)

\* A JSON list of categories, none of them one the domain functions read.
OtherCategories == [CPU |-> None, Graphics |-> None, System |-> None]

\* The cache has the structure expected: the three categories are there.
IsExpected(cache) == cache.CPU # None /\ cache.Graphics # None /\ cache.System # None

\* What the call of inxi can come to: it is not made (MDD_DISABLE_INXI is
\* set, or inxi is not found), it runs beyond its 30 seconds, or it ends
\* with a status and what it printed.
InxiRuns ==
    {[made |-> FALSE, why |-> w] : w \in {"disabled", "missing"}}
    \cup {[made |-> TRUE, timeout |-> TRUE]}
    \cup {[made |-> TRUE, timeout |-> FALSE, returncode |-> 0, stdout |-> out] :
            out \in {EmptyStr, NotJson, OtherCategories} \cup InxiCaches}
    \cup {[made |-> TRUE, timeout |-> FALSE, returncode |-> 1, stdout |-> out] :
            out \in {EmptyStr, UsualCache}}

\* prepare_inxi, lines 49-65, and the test around its call, lines 824-827:
\* the value the global holds afterwards. Whatever the try block raises is
\* caught; the status of the run is not looked at.
prepare_inxi(run) ==
    IF ~run.made THEN None
    ELSE IF run.timeout THEN None
    ELSE LET parsed == json_loads(run.stdout)
         IN IF parsed.raised THEN None ELSE parsed.value

\* How a run of inxi went, as the log would tell.
inxi_how(run) ==
    IF ~run.made THEN run.why
    ELSE IF run.timeout THEN "timeout"
    ELSE IF run.returncode # 0 THEN "nonzero"
    ELSE IF run.stdout \in {EmptyStr, NotJson} THEN "not json"
    ELSE IF ~IsExpected(run.stdout) THEN "other json"
    ELSE "expected"

\* main, lines 824-827, with prepare_inxi, lines 49-65.
PrepareInxi ==
    /\ rpc = "prepare"
    /\ \E run \in InxiRuns :
         /\ inxi' = prepare_inxi(run)
         /\ irun' = inxi_how(run)
    /\ rpc' = "call"
    /\ UNCHANGED <<env, ret, notReconVars>>

(***************************************************************************)
(* get_cpu_info, lines 301-347.                                            *)
(***************************************************************************)
\* write_cpu_model, lines 306-309.
write_cpu_model(cpu_model, val) ==
    IF ~IsAbsent(val) THEN val ELSE cpu_model

\* The loop of lines 314-320 over the items of the CPU category.
RECURSIVE cpu_loop(_, _, _)
cpu_loop(items, cpu_model, cpu_model2) ==
    IF items = <<>> THEN [cpu_model |-> cpu_model, cpu_model2 |-> cpu_model2]
    ELSE LET item == Head(items)
             m1 == write_cpu_model(cpu_model, get_inxi_val(item, "model"))
             m2 == write_cpu_model(m1, get_inxi_val(item, "variant"))
             m3 == write_cpu_model(m2, get_inxi_val(item, "variant1"))
             val == get_inxi_val(item, "variant2")
             c2 == IF Truthy(val) THEN Concat(Str("/"), val) ELSE cpu_model2
         IN  cpu_loop(Tail(items), m3, c2)

\* Lines 311-322: cpu_model after the inxi stage.  Iterating a category
\* that is None raises TypeError.
cpu_inxi_stage ==
    IF inxi = None THEN Return(EmptyStr)
    ELSE IF get_inxi_main_cat("CPU") = None THEN Raise("TypeError")
    ELSE LET r == cpu_loop(get_inxi_main_cat("CPU").items, EmptyStr, EmptyStr)
         IN  Return(Concat(r.cpu_model, r.cpu_model2))

\* A line of lscpu: whether "Model name" occurs in it, and the stripped
\* pieces line.split(":") gives.
LscpuLines ==
    {[model_name |-> TRUE, parts |-> <<Str("Model name"), Str("Ryzen 7")>>],
     [model_name |-> TRUE, parts |-> <<Str("BIOS Model name"), Str("Ryzen 7 CPU")>>],
     [model_name |-> FALSE, parts |-> <<Str("Architecture"), Str("x86_64")>>]}

\* get_command_output("lscpu"): None when the command failed.
LscpuOutputs == {None} \cup {[lines |-> l] : l \in SeqUpTo(LscpuLines, MaxLines)}

cpu_lscpu_stage_FirstOnly(lscpu) ==
    IF lscpu = None THEN Raise("AttributeError")
    ELSE LET lines == SelectSeq(lscpu.lines, LAMBDA line : line.model_name)
         IN  IF Len(lines) = 0 \/ Len(lines[1].parts) < 2 THEN Return(EmptyStr)
             ELSE Return(lines[1].parts[2])

\* Lines 326-338: the fallback to lscpu.  None.split raises AttributeError,
\* which the except clause for IndexError lets pass; an IndexError keeps
\* what cpu_model held when it was raised.
cpu_lscpu_stage(lscpu) ==
    IF lscpu = None THEN Raise("AttributeError")
    ELSE LET lines == SelectSeq(lscpu.lines, LAMBDA line : line.model_name)
         IN  IF Len(lines) = 0 \/ Len(lines[1].parts) < 2 THEN Return(EmptyStr)
             ELSE LET first == lines[1].parts[2]
                  IN  IF Len(lines) > 1
                      THEN IF Len(lines[2].parts) < 2 THEN Return(first)
                           ELSE Return(Concat(first, Concat(Str("/"), lines[2].parts[2])))
                      ELSE Return(first)

\* Line 324: the fallback is taken when the inxi stage left cpu_model empty.
cpu_takes_fallback_Always(cpu_model) == TRUE

cpu_takes_fallback(cpu_model) == ~Truthy(cpu_model)

get_cpu_info(lscpu) ==
    LET primary == cpu_inxi_stage
    IN  IF primary.raised THEN primary
        ELSE LET fallback == IF cpu_takes_fallback(primary.value)
                             THEN cpu_lscpu_stage(lscpu)
                             ELSE primary
             IN  IF fallback.raised THEN fallback
                 ELSE Return([arch |-> "platform.machine", model |-> fallback.value,
                              cores |-> "psutil.cpu_count", threads |-> "psutil.cpu_count"])

(***************************************************************************)
(* get_compositor, lines 219-232.                                          *)
(***************************************************************************)
compositors == <<"sway", "compiz", "mutter", "kwin", "xfwm4", "picom", "compton">>

\* The names of compositors that occur in the name of a process.
OccursIn(process) ==
    CASE process = "sway" -> {"sway"}
      [] process = "kwin_wayland" -> {"kwin"}
      [] OTHER -> {}

\* What "ps -e" prints, as the set of processes it lists; None when
\* check_output raised.
PsOutputs == {None} \cup {[processes |-> p] : p \in SUBSET {"sway", "kwin_wayland"}}

\* The first name of the list that occurs in the output, "unknown" when none
\* does or when the call raised (the except clause swallows it).
get_compositor(ps) ==
    IF ps = None THEN Str("unknown")
    ELSE LET found == {i \in 1..Len(compositors) :
                          \E p \in ps.processes : compositors[i] \in OccursIn(p)}
         IN  IF found = {} THEN Str("unknown")
             ELSE Str(compositors[CHOOSE i \in found : \A j \in found : i <= j])

(***************************************************************************)
(* get_graphics_info, lines 358-487.                                       *)
(***************************************************************************)
\* float(s): the number a numeric str spells, ValueError otherwise.
float(s) ==
    CASE s = Str("60") -> Return(F(60))
      [] s = Str("96") -> Return(F(96))
      [] s = Str("144.00") -> Return(F(144))
      [] OTHER -> Raise("ValueError")

\* s.split(" ")[0]: the pieces before the first blank.
BeforeBlank(s) ==
    LET blanks == {i \in 1..Len(s.str) : s.str[i] = " "}
    IN  IF blanks = {} THEN s
        ELSE S(SubSeq(s.str, 1, (CHOOSE i \in blanks : \A j \in blanks : i <= j) - 1))

\* s.replace("mm", "").
WithoutMm(s) == S(SelectSeq(s.str, LAMBDA piece : piece # "mm"))

\* s.split(": ")[-1]: the pieces after the last ": ".
AfterLastColon(s) ==
    LET colons == {i \in 1..Len(s.str) : s.str[i] = ": "}
    IN  IF colons = {} THEN s
        ELSE S(SubSeq(s.str, (CHOOSE i \in colons : \A j \in colons : i >= j) + 1,
                      Len(s.str)))

\* int(s): the integer a str of digits spells, ValueError otherwise.
int(s) ==
    CASE s = Str("600") -> Return(600)
      [] s = Str("340") -> Return(340)
      [] OTHER -> Raise("ValueError")

\* str(n) for the integers above.
str(n) ==
    CASE n = 600 -> Str("600")
      [] n = 340 -> Str("340")

\* Lines 382-395: the output record of a Monitor item.  float raises
\* ValueError on a str that is no number.
monitor_info(item) ==
    LET refresh == get_inxi_val(item, "hz")
        dpi == get_inxi_val(item, "dpi")
        size == get_inxi_val(item, "size")
        mapped == get_inxi_val(item, "mapped")
        fr == IF Truthy(refresh) THEN float(refresh) ELSE Return(None)
        fd == IF Truthy(dpi) THEN float(dpi) ELSE Return(None)
    IN  IF fr.raised THEN fr
        ELSE IF fd.raised THEN fd
        ELSE Return([model |-> get_inxi_val(item, "model"),
                     res |-> get_inxi_val(item, "res"),
                     refresh |-> fr.value,
                     dpi |-> fd.value,
                     size |-> IF Truthy(size) THEN WithoutMm(BeforeBlank(size)) ELSE None,
                     mapped |-> IF Truthy(mapped) THEN mapped
                                ELSE get_inxi_val(item, "Monitor")])

\* Lines 369-395: the loop over the items of the Graphics category; st holds
\* compositor, dri, gpus and outputs.
RECURSIVE graphics_loop(_, _)
graphics_loop(items, st) ==
    IF items = <<>> THEN Return(st)
    ELSE LET item == Head(items)
             s1 == IF Truthy(get_inxi_val(item, "Display"))
                   THEN [st EXCEPT !.compositor = get_inxi_val(item, "compositor"),
                                   !.dri = get_inxi_val(item, "dri")]
                   ELSE st
             s2 == IF Truthy(get_inxi_val(item, "Device"))
                      /\ get_inxi_val(item, "type") # Str("USB")
                   THEN [s1 EXCEPT !.gpus = Append(@,
                            [vendor |-> get_inxi_val(item, "vendor"),
                             model |-> get_inxi_val(item, "Device"),
                             driver |-> get_inxi_val(item, "driver")])]
                   ELSE s1
             info == monitor_info(item)
         IN  IF Truthy(get_inxi_val(item, "Monitor"))
             THEN IF info.raised THEN info
                  ELSE graphics_loop(Tail(items),
                                     [s2 EXCEPT !.outputs = Append(@, info.value)])
             ELSE graphics_loop(Tail(items), s2)

\* Lines 366-395: the inxi stage.
graphics_inxi_stage(st) ==
    IF inxi = None THEN Return(st)
    ELSE IF get_inxi_main_cat("Graphics") = None THEN Raise("TypeError")
    ELSE graphics_loop(get_inxi_main_cat("Graphics").items, st)

\* Lines 400-411: the adapter from lspci and glxinfo, taken only when inxi
\* gave no adapter at all.
gpus_fallback(gpus, e) ==
    IF Len(gpus) = 0
    THEN LET glxinfo == IF e.glxinfo_which THEN e.glxinfo ELSE None
         IN  <<[vendor |-> EmptyStr,
                model |-> e.lspci,
                driver |-> IF Truthy(glxinfo) THEN AfterLastColon(glxinfo) ELSE None]>>
    ELSE gpus

\* A line of xrandr: which of the three patterns of lines 419-434 it
\* matches, the words line.split(" ") gives, and the two groups of an
\* active mode.
XrandrLines ==
    {[kind |-> "disconnected", words |-> <<Str("VGA-1"), Str("disconnected")>>,
      res |-> None, rate |-> None],
     [kind |-> "mode", words |-> <<>>, res |-> Str("2560x1440"), rate |-> Str("144.00")],
     [kind |-> "other", words |-> <<>>, res |-> None, rate |-> None]}
    \cup
    {[kind |-> "connected", words |-> w, res |-> None, rate |-> None] :
        w \in {<<Str("DP-1"), Str("connected"),
                 S(<<"600", "mm">>), Str("x"), S(<<"340", "mm">>)>>,
               <<Str("DP-1"), Str("connected"), Str("(normal)")>>,
               <<Str("HDMI-1"), Str("connected"),
                 S(<<"600", "mm">>), Str("x"), S(<<"340", "mm">>)>>}}

\* get_command_output("xrandr"): None when the command failed.
XrandrOutputs == {None} \cup {[lines |-> l] : l \in SeqUpTo(XrandrLines, MaxLines)}

\* Lines 449-458: the size from the last words of the connected line.
xrandr_size(mapped) ==
    IF Len(mapped) > 2
    THEN LET width == int(WithoutMm(mapped[Len(mapped) - 2]))
             height == int(WithoutMm(mapped[Len(mapped)]))
         IN  IF width.raised \/ height.raised THEN EmptyStr
             ELSE Concat(str(width.value), Concat(Str("x"), str(height.value)))
    ELSE EmptyStr

\* Lines 463-469: a field of a record that exists is written only where it
\* is absent.
fill_field_Overwrite(old, val) == val

fill_field(old, val) == IF IsAbsent(old) THEN val ELSE old

\* Lines 418-480: the loop over the lines of xrandr.  st holds mapped (the
\* words of the connected line above, or None), inxi_output (the index in
\* outputs of the record with that name, 0 for None) and outputs.
RECURSIVE xrandr_loop(_, _)
xrandr_loop(lines, st) ==
    IF lines = <<>> THEN Return(st.outputs)
    ELSE LET line == Head(lines) IN
         IF line.kind = "disconnected"
         THEN xrandr_loop(Tail(lines), [st EXCEPT !.mapped = None])
         ELSE IF line.kind = "connected"
         THEN LET same == {i \in 1..Len(st.outputs) :
                              st.outputs[i].mapped = line.words[1]}
              IN  xrandr_loop(Tail(lines),
                     [st EXCEPT !.mapped = [words |-> line.words],
                                !.inxi_output =
                                    IF same = {} THEN 0
                                    ELSE CHOOSE i \in same : \A j \in same : i <= j])
         ELSE IF line.kind # "mode"
         THEN xrandr_loop(Tail(lines), st)
         ELSE IF st.mapped = None
         THEN Raise("Exception")
         ELSE LET resolution == line.res
                  parsed == float(line.rate)
                  refresh == IF parsed.raised THEN None ELSE parsed.value
                  size == xrandr_size(st.mapped.words)
                  k == st.inxi_output
              IN  IF k # 0
                  THEN xrandr_loop(Tail(lines),
                         [st EXCEPT !.outputs[k] =
                             [@ EXCEPT !.res = fill_field(@, resolution),
                                       !.refresh = fill_field(@, refresh),
                                       !.size = fill_field(@, size)]])
                  ELSE xrandr_loop(Tail(lines),
                         [st EXCEPT !.outputs = Append(@,
                             [model |-> EmptyStr, res |-> resolution,
                              refresh |-> refresh, dpi |-> None, size |-> size,
                              mapped |-> st.mapped.words[1]])])

\* Line 414: the text of xrandr when the tool is found and printed something.
xrandr_stage(outputs, e) ==
    IF e.xrandr_which /\ e.xrandr # None /\ e.xrandr.lines # <<>>
    THEN xrandr_loop(e.xrandr.lines,
                     [mapped |-> None, inxi_output |-> 0, outputs |-> outputs])
    ELSE Return(outputs)

get_graphics_info(e) ==
    LET start == [compositor |-> get_compositor(e.ps), dri |-> None,
                  gpus |-> <<>>, outputs |-> <<>>]
        primary == graphics_inxi_stage(start)
    IN  IF primary.raised THEN primary
        ELSE LET st == primary.value
                 compositor == IF Truthy(st.compositor) THEN st.compositor
                               ELSE get_compositor(e.ps)
                 outputs == xrandr_stage(st.outputs, e)
             IN  IF outputs.raised THEN outputs
                 ELSE Return([comp |-> compositor,
                              dri |-> st.dri,
                              gpus |-> gpus_fallback(st.gpus, e),
                              outputs |-> outputs.value])

(***************************************************************************)
(* get_desktop_info, lines 707-747.                                        *)
(***************************************************************************)
\* A key that was never put into a dict.
Missing == [tag |-> "Missing"]

\* Lines 715-723 and 726-733: the first item whose key is set, 0 for none.
first_with(items, code) ==
    LET have == {i \in 1..Len(items) : Truthy(get_inxi_val(items[i], code))}
    IN  IF have = {} THEN 0 ELSE CHOOSE i \in have : \A j \in have : i <= j

get_desktop_info(e) ==
    LET info == [cli |-> e.SHELL, gui |-> Missing, dm |-> Missing, wm |-> Missing,
                 display |-> Missing, display_with |-> Missing]
    IN  IF inxi # None
        THEN IF get_inxi_main_cat("System") = None THEN Raise("TypeError")
             ELSE IF get_inxi_main_cat("Graphics") = None THEN Raise("TypeError")
             ELSE LET sys == get_inxi_main_cat("System").items
                      gfx == get_inxi_main_cat("Graphics").items
                      d == first_with(sys, "Desktop")
                      g == first_with(gfx, "Display")
                      i1 == IF d # 0
                            THEN [info EXCEPT !.gui = get_inxi_val(sys[d], "Desktop"),
                                              !.dm = get_inxi_val(sys[d], "dm"),
                                              !.wm = get_inxi_val(sys[d], "wm")]
                            ELSE info
                      i2 == IF g # 0
                            THEN [i1 EXCEPT !.display = get_inxi_val(gfx[g], "Display"),
                                            !.display_with = get_inxi_val(gfx[g], "with")]
                            ELSE i1
                  IN  Return(i2)
        ELSE Return([info EXCEPT
                 !.gui = IF e.XDG_CURRENT_DESKTOP = None THEN Str("unknown")
                         ELSE e.XDG_CURRENT_DESKTOP,
                 !.dm = None,
                 !.wm = get_compositor(e.ps),
                 !.display = IF e.XDG_SESSION_TYPE = Str("wayland") THEN Str("wayland")
                             ELSE IF e.XDG_SESSION_TYPE = Str("x11") THEN Str("x11")
                             ELSE Str("unknown"),
                 !.display_with = None])

(***************************************************************************)
(* The answers of the fallback tools and of the environment.               *)
(***************************************************************************)
GlxinfoText == S(<<"OpenGL vendor string", ": ", "Mesa">>)

\* The answers of an ordinary desktop, kept fixed where a run does not vary
\* them.
UsualEnv ==
    [lscpu |-> [lines |-> <<[model_name |-> TRUE,
                             parts |-> <<Str("Model name"), Str("Ryzen 7")>>]>>],
     ps |-> [processes |-> {"sway"}],
     glxinfo_which |-> TRUE,
     glxinfo |-> GlxinfoText,
     lspci |-> Str("Intel UHD Graphics"),
     xrandr_which |-> FALSE,
     xrandr |-> None,
     SHELL |-> Str("/bin/bash"),
     XDG_CURRENT_DESKTOP |-> Str("GNOME"),
     XDG_SESSION_TYPE |-> Str("x11")]

CpuEnvs == {[UsualEnv EXCEPT !.lscpu = l] : l \in LscpuOutputs}

\* Whether an item of the Graphics category sets the key.
GraphicsHas(code) ==
    /\ inxi # None
    /\ inxi.Graphics # None
    /\ \E i \in 1..Len(inxi.Graphics.items) : Truthy(inxi.Graphics.items[i][code])

\* Whether nothing came from inxi, so that every fallback of
\* get_graphics_info acts.
GraphicsBare ==
    inxi = None \/ (inxi.Graphics # None /\ inxi.Graphics.items = <<>>)

\* The answers get_graphics_info is run against: the tools whose field inxi
\* has a say on, or all of them when inxi gave nothing, vary.
GraphicsEnvs ==
    {[UsualEnv EXCEPT !.ps = p, !.glxinfo_which = g[1], !.glxinfo = g[2],
                      !.lspci = l, !.xrandr_which = x[1], !.xrandr = x[2]] :
        p \in IF GraphicsBare \/ GraphicsHas("Display") THEN PsOutputs
              ELSE {UsualEnv.ps},
        g \in IF GraphicsBare \/ GraphicsHas("Device")
              THEN {<<FALSE, GlxinfoText>>, <<TRUE, None>>, <<TRUE, GlxinfoText>>}
              ELSE {<<TRUE, GlxinfoText>>},
        l \in IF GraphicsBare \/ GraphicsHas("Device")
              THEN {None, UsualEnv.lspci}
              ELSE {UsualEnv.lspci},
        x \in IF GraphicsBare \/ GraphicsHas("Monitor")
              THEN {<<FALSE, None>>} \cup {<<TRUE, o>> : o \in XrandrOutputs}
              ELSE {<<FALSE, None>>}}

DesktopEnvs ==
    {[UsualEnv EXCEPT !.ps = p, !.XDG_CURRENT_DESKTOP = d, !.XDG_SESSION_TYPE = t] :
        p \in PsOutputs,
        d \in {None, Str("GNOME")},
        t \in {None, Str("wayland"), Str("x11"), Str("tty")}}

(***************************************************************************)
(* The three domain functions get_device_data calls, lines 771-778, that   *)
(* read the cache.  Each is run on its own against the prepared cache.     *)
(***************************************************************************)
Called(fn, result) == [fn |-> fn, result |-> result]

GetCpuInfo ==
    /\ rpc = "call"
    /\ \E e \in CpuEnvs :
         /\ env' = e
         /\ ret' = Called("get_cpu_info", get_cpu_info(e.lscpu))
    /\ rpc' = IF ret'.result.raised THEN "raised" ELSE "returned"
    /\ UNCHANGED <<inxi, irun, notReconVars>>

GetGraphicsInfo ==
    /\ rpc = "call"
    /\ \E e \in GraphicsEnvs :
         /\ env' = e
         /\ ret' = Called("get_graphics_info", get_graphics_info(e))
    /\ rpc' = IF ret'.result.raised THEN "raised" ELSE "returned"
    /\ UNCHANGED <<inxi, irun, notReconVars>>

GetDesktopInfo ==
    /\ rpc = "call"
    /\ \E e \in DesktopEnvs :
         /\ env' = e
         /\ ret' = Called("get_desktop_info", get_desktop_info(e))
    /\ rpc' = IF ret'.result.raised THEN "raised" ELSE "returned"
    /\ UNCHANGED <<inxi, irun, notReconVars>>

InitRecon ==
    /\ inxi = None
    /\ irun = "not run"
    /\ env = None
    /\ ret = None
    /\ rpc = "prepare"
    /\ DisksOff
    /\ BootOff
    /\ MainOff
    /\ GuiOff

NextRecon ==
    \/ PrepareInxi
    \/ GetCpuInfo
    \/ GetGraphicsInfo
    \/ GetDesktopInfo

SpecRecon == InitRecon /\ [][NextRecon]_vars

(***************************************************************************)
(* Claims about the reconciliation, checked under SpecRecon.               *)
(***************************************************************************)
\* What the function that returned gave back.
Value == ret.result.value

Returned(fn) == rpc = "returned" /\ ret.fn = fn

\* The items of a category of the populated cache that set a key.
ItemsWith(cat, code) ==
    IF inxi = None \/ inxi[cat] = None THEN <<>>
    ELSE SelectSeq(inxi[cat].items, LAMBDA item : Truthy(item[code]))

\* present: not None, '' or 'N/A'.
Present(v) == v # None /\ v # EmptyStr /\ v # NA

\* What inxi says about the compositor: the entry of its last Display item.
InxiCompositor ==
    LET d == ItemsWith("Graphics", "Display")
    IN  IF d = <<>> THEN None ELSE d[Len(d)].compositor

\* What the active modes of xrandr say about the output of a name.
XrandrNames ==
    IF env.xrandr_which /\ env.xrandr # None
    THEN {l.words[1] : l \in {env.xrandr.lines[i] : i \in 1..Len(env.xrandr.lines)}
                              \cap {x \in XrandrLines : x.kind = "connected"}}
    ELSE {}

\* C3: a value inxi gave that is present (not None, '' or 'N/A') is the value
\* of the report, whatever the fallback tool answers: the model of the cpu
\* against lscpu, the compositor against the scan of processes, the res,
\* refresh and size of an output against xrandr, and the driver of an
\* adapter and the desktop against their fallbacks.
C3_PresentValueKept ==
    /\ Returned("get_cpu_info") =>
          /\ (~cpu_inxi_stage.raised /\ Present(cpu_inxi_stage.value))
                => Value.model = cpu_inxi_stage.value
          /\ \A item \in CpuItems :
                (/\ inxi # None
                 /\ inxi.CPU = Cat(<<item>>)
                 /\ Present(item.model)
                 /\ item.variant = None /\ item.variant1 = None /\ item.variant2 = None)
                => Value.model = item.model
    /\ Returned("get_graphics_info") =>
          /\ Present(InxiCompositor) => Value.comp = InxiCompositor
          /\ LET m == ItemsWith("Graphics", "Monitor")
             IN  \A k \in 1..Len(m) :
                    /\ Present(m[k].res) => Value.outputs[k].res = m[k].res
                    /\ m[k].hz = Str("60") => Value.outputs[k].refresh = F(60)
                    /\ m[k].size = InxiSize => Value.outputs[k].size = Str("527x296")
          /\ LET d == SelectSeq(ItemsWith("Graphics", "Device"),
                                LAMBDA item : item.type # Str("USB"))
             IN  \A k \in 1..Len(d) :
                    Present(d[k].driver) => Value.gpus[k].driver = d[k].driver
    /\ Returned("get_desktop_info") =>
          LET d == ItemsWith("System", "Desktop")
          IN  d # <<>> => Value.gui = d[1].Desktop

\* inxi knows the resolution of DP-1 but not its refresh rate; xrandr reports
\* DP-1 with another resolution.  The resolution of inxi stays and the
\* refresh rate comes from xrandr.
C3_Witness ==
    /\ Returned("get_graphics_info")
    /\ inxi # None
    /\ inxi.Graphics # None
    /\ Len(inxi.Graphics.items) = 1
    /\ inxi.Graphics.items[1].Monitor = Str("DP-1")
    /\ inxi.Graphics.items[1].mapped = None
    /\ inxi.Graphics.items[1].res = Str("1920x1080")
    /\ inxi.Graphics.items[1].hz = None
    /\ env.xrandr_which
    /\ env.xrandr # None
    /\ Len(env.xrandr.lines) = 2
    /\ env.xrandr.lines[1].kind = "connected"
    /\ env.xrandr.lines[1].words[1] = Str("DP-1")
    /\ env.xrandr.lines[2].kind = "mode"
    /\ env.xrandr.lines[2].res = Str("2560x1440")
    /\ Len(Value.outputs) = 1
    /\ Value.outputs[1].res = Str("1920x1080")
    /\ Value.outputs[1].refresh = F(144)

\* What the fallback tools yield for the model of the cpu, the driver of an
\* adapter and the desktop.
LscpuModel ==
    IF env.lscpu = None THEN None
    ELSE LET l == SelectSeq(env.lscpu.lines, LAMBDA line : line.model_name)
         IN  IF l = <<>> THEN None ELSE l[1].parts[2]

GlxinfoDriver ==
    IF env.glxinfo_which /\ env.glxinfo # None THEN Str("Mesa") ELSE None

C4_Cpu ==
    Returned("get_cpu_info") =>
        (((inxi = None \/ ~Present(cpu_inxi_stage.value)) /\ LscpuModel # None)
            => Value.model.str[1] = LscpuModel.str[1])

C4_Compositor ==
    Returned("get_graphics_info") =>
        (InxiCompositor \in {None, EmptyStr} => Value.comp = get_compositor(env.ps))

C4_Driver ==
    Returned("get_graphics_info") =>
        \A k \in 1..Len(Value.gpus) :
            ((GlxinfoDriver # None /\ inxi # None) => Present(Value.gpus[k].driver))

C4_DriverNoCache ==
    Returned("get_graphics_info") =>
        ((GlxinfoDriver # None /\ inxi = None) => Value.gpus[1].driver = GlxinfoDriver)

C4_Desktop ==
    Returned("get_desktop_info") =>
        (((inxi = None \/ ItemsWith("System", "Desktop") = <<>>)
            /\ env.XDG_CURRENT_DESKTOP # None)
            => Value.gui = env.XDG_CURRENT_DESKTOP)

\* C4: a field for which inxi has no value (the cache is empty, the item is
\* missing, the field is None or empty) and the fallback tool has one holds
\* the value of the fallback tool; so for the driver of an adapter inxi
\* listed without a driver, and for the desktop when inxi has no Desktop
\* entry.
C4_FallbackFiresOnAbsence ==
    /\ C4_Cpu
    /\ C4_Compositor
    /\ C4_DriverNoCache
    /\ C4_Driver
    /\ C4_Desktop

\* ------------------------------------------------------------------------
\* Dual-boot detection: check_windows_dualboot, dualboot_os_prober_check and
\* dualboot_lsblk_check (mdd.py 106-216).
\* ------------------------------------------------------------------------

\* Most partitions under one block device, and most block devices, in what
\* lsblk answers.
MaxParts == 1
MaxBlockDevices == 1

\* The default of dualboot_lsblk_check's parameter.
min_size_gb == 20

\* A byte count, as whole GiB and the bytes beyond them: Python's integers are
\* unbounded, and 20 * 1024 ** 3 is beyond 32 bits.
Bytes(gib, rem) == [gib |-> gib, rem |-> rem]

\* min_size_gb * 1024 * 1024 * 1024
min_size_bytes == Bytes(min_size_gb, 0)

\* a >= b on byte counts
AtLeast(a, b) == a.gib > b.gib \/ (a.gib = b.gib /\ a.rem >= b.rem)

\* The exceptions the detection can meet; all of them derive from Exception.
ExceptionClasses ==
    {"Exception", "OSError", "FileNotFoundError", "TimeoutExpired",
     "JSONDecodeError", "TypeError", "AttributeError"}

OSErrorClasses == {"OSError", "FileNotFoundError"}

except_Exception_OnlyOSError(exc) == exc \in OSErrorClasses

\* except Exception
except_Exception(exc) == exc \in ExceptionClasses

\* str.lower() on the names os-prober prints
lower(name) ==
    CASE name = "Windows Boot Manager" -> "windows boot manager"
      [] name = "Windows" -> "windows"
      [] name = "Ubuntu 24.04" -> "ubuntu 24.04"
      [] name = "Ubuntu" -> "ubuntu"
      [] OTHER -> name

\* The lines os-prober prints: device, long name, short name, boot type.
OsProberLines ==
    { <<"/dev/sda1@/efi/Microsoft/Boot/bootmgfw.efi", "Windows Boot Manager", "Windows", "efi">>,
      <<"/dev/sdb2", "Ubuntu 24.04", "Ubuntu", "linux">> }

\* What os-prober writes to stderr, in pieces.
OsProberStderr == { <<>>, <<"os-prober: ", "you must be root">> }

error_indicators == {"you must be root", "Operation not permitted", "Permission denied"}

\* indicator in result.stderr
InText(piece, text) == \E i \in DOMAIN text : text[i] = piece

\* The CompletedProcess of one run of os-prober.
OsProberResults ==
    [returncode : {0, 1}, stderr : OsProberStderr, stdout : SeqUpTo(OsProberLines, MaxLines)]

\* A run that subprocess.run cut short after its 30 seconds.
TimedOut == [timeout |-> TRUE]

\* returncode != 0 or any(indicator in result.stderr ...)
needs_elevation(result) ==
    \/ result.returncode # 0
    \/ \E indicator \in error_indicators : InText(indicator, result.stderr)

\* "windows boot manager" in line.lower()
is_windows_line(line) == \E i \in DOMAIN line : lower(line[i]) = "windows boot manager"

\* Lines 140-152 of dualboot_os_prober_check, on the result it ends up with.
os_prober_verdict(result) ==
    IF result.returncode # 0 THEN Raise("Exception")
    ELSE IF result.stdout # <<>> /\ \E i \in DOMAIN result.stdout : is_windows_line(result.stdout[i])
         THEN Return(TRUE)
         ELSE Return(FALSE)

\* The two handlers closing dualboot_os_prober_check: whatever is raised in
\* its try block leaves as an OSError.
os_prober_wrap(exc) ==
    IF exc = "TimeoutExpired" THEN Raise("OSError")
    ELSE IF except_Exception(exc) THEN Raise("OSError")
    ELSE Raise(exc)

Logged(cmd, how) == [cmd |-> cmd, how |-> how]

\* The sizes lsblk -b reports, around the threshold.
PartSizes == {Bytes(min_size_gb - 1, GiB - 1), min_size_bytes, Bytes(min_size_gb, 1)}

Partitions ==
    [name : {"sda1"},
     fstype : {None, Str("ntfs"), Str("NTFS"), Str("ext4")},
     size : PartSizes \cup {None},
     children : {<<>>}]

BlockDevices ==
    [name : {"sda"}, fstype : {None}, size : {Bytes(500, 0)},
     children : SeqUpTo(Partitions, MaxParts)]

LsblkTrees == {[blockdevices |-> d] : d \in SeqUpTo(BlockDevices, MaxBlockDevices)}

\* A JSON document that is a list, not an object.
JsonList == [list |-> <<>>]

\* What running lsblk -b -J can come to: no such program, a non-zero exit,
\* output that is no JSON, JSON of another shape, the tree of block devices.
LsblkRuns ==
    {[found |-> FALSE]}
    \cup {[found |-> TRUE, returncode |-> 1, stdout |-> EmptyStr]}
    \cup {[found |-> TRUE, returncode |-> 0, stdout |-> out] :
            out \in {EmptyStr, JsonList} \cup LsblkTrees}

\* str(device.get("fstype", "")).lower()
fstype_lower(device) ==
    CASE device.fstype = None -> Str("none")
      [] device.fstype = Str("NTFS") -> Str("ntfs")
      [] OTHER -> device.fstype

\* int(device.get("size", 0))
size_int(device) ==
    IF device.size = None THEN Raise("TypeError") ELSE Return(device.size)

\* int(...) >= min_size_bytes
size_reaches(size) == AtLeast(size, min_size_bytes)

\* The condition of process_device: 'and' reads the size only of an ntfs node.
looks_like_windows(device) ==
    IF fstype_lower(device) # Str("ntfs") THEN Return(FALSE)
    ELSE LET n == size_int(device)
         IN IF n.raised THEN n ELSE Return(size_reaches(n.value))

RECURSIVE process_device(_)
RECURSIVE process_all(_)

\* for child in ...: if process_device(child): return True
\* Falling off the end returns None, which the callers read as false.
process_all(devices) ==
    IF devices = <<>> THEN Return(FALSE)
    ELSE LET first == process_device(Head(devices))
         IN IF first.raised THEN first
            ELSE IF first.value THEN Return(TRUE)
            ELSE process_all(Tail(devices))

process_device(device) ==
    LET own == looks_like_windows(device)
    IN IF own.raised THEN own
       ELSE IF own.value THEN Return(TRUE)
       ELSE process_all(device.children)

dualboot_lsblk_check(run) ==
    IF ~run.found THEN Raise("FileNotFoundError")
    ELSE IF run.returncode # 0 THEN Raise("OSError")
    ELSE LET loaded == json_loads(run.stdout)
         IN IF loaded.raised THEN loaded
            ELSE IF loaded.value = JsonList THEN Raise("AttributeError")
            ELSE process_all(loaded.value.blockdevices)

\* How a run of lsblk ended, as the log keeps it.
lsblk_how(run) ==
    IF ~run.found THEN "missing"
    ELSE IF run.returncode # 0 THEN "nonzero"
    ELSE IF run.stdout = EmptyStr THEN "garbage"
    ELSE IF run.stdout = JsonList THEN "list"
    ELSE "tree"

\* Where check_windows_dualboot returns: what dualboot_os_prober_check
\* returned (line 208), what dualboot_lsblk_check returned (line 213), or the
\* False of the last handler (line 216).
ReturnedAt(site, result) == [site |-> site, result |-> result]

\* Whatever dualboot_os_prober_check raises, check_windows_dualboot catches
\* at line 209 and goes on to the partition analysis.
AfterOsProberRaise(exc) ==
    LET wrapped == os_prober_wrap(exc)
    IN IF except_Exception(wrapped.exc)
       THEN /\ dpc' = "fallback"
            /\ dret' = dret
       ELSE /\ dpc' = "done"
            /\ dret' = ReturnedAt("raise", wrapped)

\* shutil.which("os-prober")
OsProberWhich ==
    /\ dpc = "which"
    /\ \E installed \in BOOLEAN :
         IF installed
         THEN /\ dpc' = "direct"
              /\ dlog' = dlog
              /\ dret' = dret
         ELSE /\ dlog' = Append(dlog, Logged("which os-prober", "missing"))
              /\ IF except_Exception("Exception")
                 THEN dpc' = "fallback" /\ dret' = dret
                 ELSE dpc' = "done" /\ dret' = ReturnedAt("raise", Raise("Exception"))
    /\ UNCHANGED <<dres, notBootVars>>

\* subprocess.run(["os-prober"], ..., timeout=30)
OsProberDirect ==
    /\ dpc = "direct"
    /\ \E run \in OsProberResults \cup {TimedOut} :
         IF run = TimedOut
         THEN /\ dlog' = Append(dlog, Logged("os-prober", "timeout"))
              /\ dres' = None
              /\ AfterOsProberRaise("TimeoutExpired")
         ELSE /\ dlog' = Append(dlog, Logged("os-prober",
                            IF run.returncode # 0 THEN "nonzero" ELSE "zero"))
              /\ dres' = run
              /\ dpc' = IF needs_elevation(run) THEN "elevated" ELSE "verdict"
              /\ dret' = dret
    /\ UNCHANGED notBootVars

\* subprocess.run(["sudo", "-n", "os-prober"], ..., timeout=30)
OsProberElevated ==
    /\ dpc = "elevated"
    /\ \E run \in OsProberResults \cup {TimedOut} :
         IF run = TimedOut
         THEN /\ dlog' = Append(dlog, Logged("sudo -n os-prober", "timeout"))
              /\ dres' = None
              /\ AfterOsProberRaise("TimeoutExpired")
         ELSE /\ dlog' = Append(dlog, Logged("sudo -n os-prober",
                            IF run.returncode # 0 THEN "nonzero" ELSE "zero"))
              /\ dres' = run
              /\ dpc' = "verdict"
              /\ dret' = dret
    /\ UNCHANGED notBootVars

\* Lines 140-152: the result is read, and the verdict returned or the failure
\* raised.
OsProberVerdict ==
    /\ dpc = "verdict"
    /\ LET verdict == os_prober_verdict(dres)
       IN IF verdict.raised
          THEN AfterOsProberRaise(verdict.exc)
          ELSE /\ dpc' = "done"
               /\ dret' = ReturnedAt("os-prober", verdict)
    /\ dres' = None
    /\ UNCHANGED <<dlog, notBootVars>>

\* Lines 211-216: dualboot_lsblk_check in its try block.
DualbootLsblkCheck ==
    /\ dpc = "fallback"
    /\ \E run \in LsblkRuns :
         LET verdict == dualboot_lsblk_check(run)
         IN /\ dlog' = Append(dlog, Logged("lsblk", lsblk_how(run)))
            /\ dret' = IF ~verdict.raised THEN ReturnedAt("lsblk", verdict)
                       ELSE IF except_Exception(verdict.exc)
                       THEN ReturnedAt("default", Return(FALSE))
                       ELSE ReturnedAt("raise", verdict)
            /\ dres' = run
    /\ dpc' = "done"
    /\ UNCHANGED notBootVars

InitBoot ==
    /\ dpc = "which"
    /\ dres = None
    /\ dlog = <<>>
    /\ dret = None
    /\ DisksOff
    /\ ReconOff
    /\ MainOff
    /\ GuiOff

NextBoot ==
    \/ OsProberWhich
    \/ OsProberDirect
    \/ OsProberElevated
    \/ OsProberVerdict
    \/ DualbootLsblkCheck

SpecBoot == InitBoot /\ [][NextBoot]_vars

\* ------------------------------------------------------------------------
\* Claims about the dual-boot detection.
\* ------------------------------------------------------------------------

LogHas(cmd, hows) == \E i \in DOMAIN dlog : dlog[i].cmd = cmd /\ dlog[i].how \in hows

\* os-prober is missing, timed out, or failed for good (the elevated retry
\* too ended with a non-zero status).
OsProberUnusable ==
    \/ LogHas("which os-prober", {"missing"})
    \/ LogHas("os-prober", {"timeout"})
    \/ LogHas("sudo -n os-prober", {"timeout", "nonzero"})

LsblkRan == LogHas("lsblk", {"missing", "nonzero", "garbage", "list", "tree"})

\* lsblk could not be run, or what it printed is not the JSON object expected.
LsblkUnusable == LogHas("lsblk", {"missing", "nonzero", "garbage", "list"})

\* The provenance of a verdict, from the place it was returned at.
Provenance ==
    CASE dret.site = "os-prober" -> "os-prober"
      [] dret.site = "lsblk" -> "lsblk-size-analysis"
      [] dret.site = "default" -> "undetermined-default-false"
      [] OTHER -> "none"

\* C5: the detection raises nothing; when os-prober is missing, fails or
\* times out the partition analysis runs and the verdict is the fallback's
\* (or the default); when lsblk cannot run or its output cannot be parsed
\* the verdict is False with provenance undetermined-default-false.
C5_DegradesGracefully ==
    dpc = "done" =>
        /\ ~dret.result.raised
        /\ dret.result.value \in BOOLEAN
        /\ OsProberUnusable =>
              (LsblkRan /\ Provenance \in {"lsblk-size-analysis", "undetermined-default-false"})
        /\ LsblkUnusable =>
              (dret.result.value = FALSE /\ Provenance = "undetermined-default-false")
        /\ (LsblkRan /\ LogHas("lsblk", {"tree"}) /\ Provenance = "lsblk-size-analysis") =>
              OsProberUnusable

C5_Witness ==
    /\ dpc = "done"
    /\ LogHas("os-prober", {"timeout"})
    /\ LogHas("lsblk", {"garbage"})
    /\ dret = ReturnedAt("default", Return(FALSE))

\* ------------------------------------------------------------------------
\* The run: main, get_device_data and http_post_info (mdd.py 29-42, 750-852),
\* with every external command the domain functions run.
\* ------------------------------------------------------------------------

\* Most external commands that fail or hang in one run.
MaxFailures == 1

\* What an external command can come to: it answers as expected, it ends
\* with a non-zero status (or is not there to run), it prints nothing or
\* something of another shape, or it never finishes by itself.
Kinds == {"ok", "nonzero", "malformed", "hang"}

\* What the code around a command makes of an outcome: it goes on, it goes on
\* with defaults in the fields the command feeds, it goes on and remembers
\* something, or an exception leaves the domain function.
Fine == [do |-> "go"]
Degrade == [do |-> "degrade"]
Flag(flag) == [do |-> "flag", flag |-> flag]
RaiseOut(exc) == [do |-> "raise", exc |-> exc]

\* No timeout is passed: there is nothing for an expiry to do.
NoTimeout == [do |-> "none"]

Site(fn, cmd, when, fields, timeout, ok, nonzero, malformed, expired) ==
    [fn |-> fn, cmd |-> cmd, when |-> when, fields |-> fields, timeout |-> timeout,
     ok |-> ok, nonzero |-> nonzero, malformed |-> malformed, expired |-> expired]

\* get_command_output(cmd): no timeout, None on a non-zero status, and the
\* caller takes None or odd output as nonzero and malformed say.
Cmd(fn, cmd, when, fields, nonzero, malformed) ==
    Site(fn, cmd, when, fields, FALSE, Fine, nonzero, malformed, NoTimeout)

\* The external commands of the domain functions, in the order run. 'when'
\* lists what must hold for the call to be made.
Sites == <<
    \* get_system_info, lines 253-290 (get_install_date, lines 235-250)
    Cmd("system", "hostnamectl chassis", {}, {"form_factor"}, Degrade, Degrade),
    Cmd("system", "stat -c %W /", {}, {"install_date"}, Degrade, Degrade),
    Cmd("system", "cat /proc/device-tree/model", {"aarch64"}, {"product_name"},
        RaiseOut("AttributeError"), Degrade),
    Cmd("system", "cat /proc/device-tree/compatible", {"aarch64"},
        {"product_family", "sys_vendor", "board_name"},
        RaiseOut("AttributeError"), Degrade),
    Cmd("system", "cat /sys/devices/virtual/dmi/id/product_name", {"x86_64"},
        {"product_name"}, Degrade, Degrade),
    Cmd("system", "cat /sys/devices/virtual/dmi/id/product_family", {"x86_64"},
        {"product_family"}, Degrade, Degrade),
    Cmd("system", "cat /sys/devices/virtual/dmi/id/sys_vendor", {"x86_64"},
        {"sys_vendor"}, Degrade, Degrade),
    Cmd("system", "cat /sys/devices/virtual/dmi/id/board_name", {"x86_64"},
        {"board_name"}, Degrade, Degrade),
    \* get_boot_info, lines 293-298
    Cmd("boot", "cat /proc/uptime", {}, {"uptime_seconds"},
        RaiseOut("AttributeError"), RaiseOut("ValueError")),
    \* get_cpu_info, lines 301-347
    Cmd("cpu", "lscpu", {"no inxi"}, {"model"}, RaiseOut("AttributeError"), Degrade),
    \* get_graphics_info, lines 358-487 (get_compositor, lines 219-232)
    Cmd("graphics", "ps -e", {}, {"comp"}, Degrade, Degrade),
    Cmd("graphics", "glxinfo | grep 'OpenGL vendor'", {"no inxi"}, {"gpus"},
        Degrade, Degrade),
    Cmd("graphics", "lspci | grep -i vga | cut -d ':' -f3", {"no inxi"},
        {"gpus"}, Degrade, Degrade),
    Cmd("graphics", "xrandr", {}, {"outputs"}, Degrade, RaiseOut("Exception")),
    \* get_audio_info, lines 490-556
    Cmd("audio", "last -wn1", {"root"}, {"servers"}, RaiseOut("AttributeError"), Degrade),
    Cmd("audio", "su - user -c 'id -u'", {"root"}, {"servers"},
        RaiseOut("TypeError"), Degrade),
    Site("audio", "pacman -Qi pulseaudio", {}, {"servers"}, FALSE,
         Flag("pulseaudio"), Degrade, Flag("pulseaudio"), NoTimeout),
    Cmd("audio", "LANG=C pactl info", {"pulseaudio"}, {"servers"},
        RaiseOut("AttributeError"), Degrade),
    Site("audio", "pacman -Qi pipewire", {}, {"servers"}, FALSE,
         Flag("pipewire"), Degrade, Flag("pipewire"), NoTimeout),
    Cmd("audio", "LANG=C pw-cli info 0", {"pipewire"}, {"servers"}, Degrade, Degrade),
    \* get_disk_info, lines 616-621 (get_disks_metrics, check_windows_dualboot)
    Cmd("disk", "lsblk -Jbo NAME,TYPE,SIZE,FSTYPE,MOUNTPOINTS", {}, {"disks"},
        RaiseOut("TypeError"), RaiseOut("JSONDecodeError")),
    Site("disk", "os-prober", {"os-prober"}, {"windows"}, TRUE,
         Fine, Flag("elevate"), Fine, Flag("fallback")),
    Site("disk", "sudo -n os-prober", {"elevate"}, {"windows"}, TRUE,
         Fine, Flag("fallback"), Fine, Flag("fallback")),
    Cmd("disk", "lsblk -b -J -o NAME,SIZE,FSTYPE,MOUNTPOINT", {"fallback"}, {"windows"},
        Degrade, Degrade),
    \* get_locale_info, lines 624-639
    Cmd("locale", "localectl status | grep 'System Locale'", {}, {"region"},
        Degrade, Degrade),
    Cmd("locale", "echo $LANG", {}, {"language"}, Degrade, Degrade),
    \* get_package_info, lines 679-704 (get_pacman_mirrors_info, lines 642-676)
    Cmd("package", "grep -a '[ALPM] upgraded' /var/log/pacman.log | tail -1", {},
        {"last_update"}, Degrade, Degrade),
    Cmd("package", "flatpak list --app | wc -l", {}, {"flatpaks"},
        Degrade, RaiseOut("ValueError")),
    Cmd("package", "pacman-mirrors -G", {}, {"branch"}, Degrade, Degrade),
    Cmd("package", "pacman -Q | wc -l", {}, {"pkgs"},
        RaiseOut("TypeError"), RaiseOut("ValueError")),
    Cmd("package", "pacman -Qm | wc -l", {}, {"foreign_pkgs"},
        RaiseOut("TypeError"), RaiseOut("ValueError")),
    Cmd("package", "pacman -Qu | wc -l", {}, {"pkgs_update_pending"},
        RaiseOut("TypeError"), RaiseOut("ValueError")),
    Cmd("package", "pacman-mirrors --country-config", {}, {"pacman_mirrors"},
        Degrade, Degrade),
    Cmd("package", "pacman-mirrors --status", {}, {}, Fine, Fine),
    Site("package", "pacman-mirrors --status (subprocess.run)", {}, {"pacman_mirrors"},
         TRUE, Fine, Degrade, Degrade, RaiseOut("TimeoutExpired")),
    \* get_desktop_info, lines 707-747
    Cmd("desktop", "ps -e", {"no inxi"}, {"wm"}, Degrade, Degrade)
>>

\* The domain functions, in the order get_device_data calls them.
DomainFunctions ==
    <<"system", "boot", "cpu", "memory", "graphics", "audio", "disk", "locale",
      "package", "desktop">>

AllSections == {DomainFunctions[i] : i \in DOMAIN DomainFunctions}

SitesOf(fn) == {i \in DOMAIN Sites : Sites[i].fn = fn}

\* The machines the run is tried on: a desktop with inxi and os-prober, a
\* machine with neither, an ARM board on which mdd runs as root.
Hosts == { {"x86_64", "inxi", "os-prober"}, {"x86_64"}, {"aarch64", "root"} }

\* What holds when a domain function starts: the machine's facts, and what
\* follows from them before any command is run (no cache to read, no
\* os-prober to ask).
StartFacts ==
    host \cup (IF inxi = None THEN {"no inxi"} ELSE {})
         \cup (IF "os-prober" \notin host THEN {"fallback"} ELSE {})

\* The outcomes of a function's commands in which at most 'budget' of them
\* fail or hang.
RECURSIVE Outcomes(_, _)
Outcomes(sites, budget) ==
    IF budget = 0 THEN {[i \in sites |-> "ok"]}
    ELSE LET fewer == Outcomes(sites, budget - 1)
         IN fewer \cup {[o EXCEPT ![i] = k] : o \in fewer, i \in sites, k \in Kinds}

Failed(outcome) == Cardinality({i \in DOMAIN outcome : outcome[i] # "ok"})

\* What the code makes of a command's outcome. A command run without a
\* timeout that never finishes is waited for without end.
effect_of(site, kind) ==
    CASE kind = "ok" -> site.ok
      [] kind = "nonzero" -> site.nonzero
      [] kind = "malformed" -> site.malformed
      [] kind = "hang" -> IF site.timeout THEN site.expired ELSE [do |-> "block"]

\* What went wrong, and where.
Cause(i, kind) ==
    [fn |-> Sites[i].fn, cmd |-> Sites[i].cmd,
     kind |-> IF kind = "hang" /\ Sites[i].timeout THEN "timeout" ELSE kind]

\* One domain function: its commands from the i-th on, in order.
RECURSIVE run_sites(_, _, _, _)
run_sites(i, fn, outcome, st) ==
    IF i > Len(Sites)
    THEN [status |-> "returned", degraded |-> st.degraded, run |-> st.run, cause |-> None]
    ELSE IF Sites[i].fn # fn \/ ~(Sites[i].when \subseteq st.facts)
    THEN run_sites(i + 1, fn, outcome, st)
    ELSE LET site == Sites[i]
             eff == effect_of(site, outcome[i])
             ran == [st EXCEPT !.run = @ \cup {i}]
         IN CASE eff.do = "go" -> run_sites(i + 1, fn, outcome, ran)
              [] eff.do = "degrade" ->
                     run_sites(i + 1, fn, outcome,
                               [ran EXCEPT !.degraded = @ \cup {<<fn, f>> : f \in site.fields}])
              [] eff.do = "flag" ->
                     run_sites(i + 1, fn, outcome, [ran EXCEPT !.facts = @ \cup {eff.flag}])
              [] eff.do = "raise" ->
                     [status |-> "raised", degraded |-> ran.degraded, run |-> ran.run,
                      cause |-> Cause(i, outcome[i])]
              [] eff.do = "block" ->
                     [status |-> "blocked", degraded |-> ran.degraded, run |-> ran.run,
                      cause |-> Cause(i, outcome[i])]

domain_function(fn, outcome) ==
    run_sites(1, fn, outcome, [facts |-> StartFacts, degraded |-> {}, run |-> {}])

\* The function get_device_data calls after fn, or "return" after the last.
NextFunction(fn) ==
    LET i == CHOOSE j \in DOMAIN DomainFunctions : DomainFunctions[j] = fn
    IN IF i = Len(DomainFunctions) THEN "return" ELSE DomainFunctions[i + 1]

Exited(code) == [code |-> code]

\* An exception nobody catches ends the interpreter with status 1.
Uncaught == Exited(1)


\* main, lines 824-827, and prepare_inxi, lines 49-65: without inxi (or with
\* MDD_DISABLE_INXI set) the cache stays None; a call that fails, prints no
\* JSON or runs beyond its 30 seconds is caught and logged.
MainPrepareInxi ==
    /\ pc = "prepare_inxi"
    /\ IF "inxi" \notin host
       THEN /\ inxi' = None
            /\ failures' = failures
       ELSE \E kind \in Kinds :
              /\ kind # "ok" => failures < MaxFailures
              /\ inxi' = IF kind = "ok" THEN UsualCache ELSE None
              /\ failures' = IF kind = "ok" THEN failures ELSE failures + 1
    /\ pc' = "get_device_data"
    /\ UNCHANGED <<args, host, meta, called, sections, degraded, probed, cause,
                   document, response, posts, printed, exit_status, machine_id, device_id, notMainVars>>

\* Most characters in /etc/machine-id.
MaxIdLen == 2

\* The characters of the file: two hexadecimal digits and the newline.
IdChars == {"4", "f", "\n"}

MachineIdFiles == SeqUpTo(IdChars, MaxIdLen)

\* The file as systemd writes it: the id and a newline.
UsualMachineId == [text |-> <<"4", "\n">>]

\* str.strip(): leading and trailing whitespace goes.
RECURSIVE strip(_)
strip(text) ==
    IF text = <<>> THEN text
    ELSE IF Head(text) = "\n" THEN strip(Tail(text))
    ELSE IF text[Len(text)] = "\n" THEN strip(SubSeq(text, 1, Len(text) - 1))
    ELSE text

\* hashlib.sha256(...).digest(), taken as collision-free: the digest is
\* known by what was hashed.
sha256(bytes) == [sha256 |-> bytes]

\* str(uuid.UUID(bytes=hashed_id[:16], version=5))
uuid5(digest) == [uuid |-> [first16 |-> digest], version |-> 5]

get_hashed_device_id_Volatile(content) ==
    IF content = None THEN Raise("FileNotFoundError")
    ELSE Return(uuid5(sha256(<<strip(content.text), pc>>)))

\* get_hashed_device_id, lines 94-103
get_hashed_device_id(content) ==
    IF content = None THEN Raise("FileNotFoundError")
    ELSE Return(uuid5(sha256(strip(content.text))))

returns_early_Never(telemetry) == FALSE

\* if not telemetry: return data
returns_early(telemetry) == ~telemetry

\* get_device_data, lines 751-766: the meta block, with the device id read
\* from /etc/machine-id, and the early return of the minimal report.
GetDeviceData ==
    /\ pc = "get_device_data"
    /\ LET id == get_hashed_device_id(machine_id)
       IN IF id.raised
          THEN /\ pc' = "crashed"
               /\ cause' = [fn |-> "meta", cmd |-> "open /etc/machine-id", kind |-> "unreadable"]
               /\ exit_status' = Uncaught
               /\ UNCHANGED <<meta, document, device_id>>
          ELSE /\ cause' = cause
               /\ exit_status' = exit_status
               /\ device_id' = id.value
               /\ IF returns_early(args.telemetry)
                  THEN /\ meta' = {"version", "timestamp", "device_id", "distro_id"}
                       /\ document' = [meta |-> meta', keys |-> {"meta"}]
                       /\ pc' = "print"
                  ELSE /\ meta' = {"version", "timestamp", "device_id", "distro_id",
                                   "release", "inxi"}
                       /\ document' = document
                       /\ pc' = DomainFunctions[1]
    /\ UNCHANGED <<args, host, machine_id, called, sections, degraded, probed, failures,
                   response, posts, printed, inxi, notMainVars>>

\* get_device_data, lines 768-781: the next domain function is called; when
\* the last has returned the sections join the document and it is returned.
\* An exception leaving a domain function leaves get_device_data and main.
DomainFunction ==
    /\ pc \in AllSections
    /\ \E outcome \in Outcomes(SitesOf(pc), MaxFailures - failures) :
         LET r == domain_function(pc, outcome)
         IN /\ failures' = failures + Failed(outcome)
            /\ called' = called \cup {pc}
            /\ probed' = probed \cup r.run
            /\ CASE r.status = "returned" ->
                      /\ sections' = sections \cup {pc}
                      /\ degraded' = degraded \cup r.degraded
                      /\ pc' = IF NextFunction(pc) = "return" THEN "print"
                               ELSE NextFunction(pc)
                      /\ document' = IF NextFunction(pc) = "return"
                                     THEN [meta |-> meta, keys |-> {"meta"} \cup sections']
                                     ELSE document
                      /\ UNCHANGED <<cause, exit_status>>
                 [] r.status = "raised" ->
                      /\ pc' = "crashed"
                      /\ cause' = r.cause
                      /\ exit_status' = Uncaught
                      /\ UNCHANGED <<sections, degraded, document>>
                 [] r.status = "blocked" ->
                      /\ pc' = "blocked"
                      /\ cause' = r.cause
                      /\ UNCHANGED <<sections, degraded, document, exit_status>>
    /\ UNCHANGED <<args, host, meta, response, posts, printed, inxi, machine_id, device_id, notMainVars>>

skips_submission_Never(dry_run) == FALSE

\* if args.dry_run: ... return
skips_submission(dry_run) == dry_run

\* main, lines 831-845: the document is printed; a dry run ends here.
PrintDocument ==
    /\ pc = "print"
    /\ printed' = TRUE
    /\ IF skips_submission(args.dry_run)
       THEN pc' = "exit" /\ exit_status' = Exited(0)
       ELSE pc' = "post" /\ exit_status' = exit_status
    /\ UNCHANGED <<args, host, meta, called, sections, degraded, probed, failures,
                   cause, document, response, posts, inxi, machine_id, device_id, notMainVars>>

\* The final status codes the collector can answer with, one or two of each
\* class.
StatusCodes == {100, 200, 204, 300, 304, 400, 404, 500, 503}

\* What requests.post comes to: a response, or an exception of the library.
Responses ==
    {[status_code |-> c] : c \in StatusCodes}
    \cup {[exception |-> e] : e \in {"ConnectionError", "Timeout"}}

IsResponse(r) == r \in {[status_code |-> c] : c \in StatusCodes}

\* response.raise_for_status(): HTTPError for a 4xx or a 5xx, nothing else.
raise_for_status(r) == 400 <= r.status_code /\ r.status_code < 600

\* http_post_info, lines 29-42: True unless anything was raised.
http_post_info(r) ==
    IF ~IsResponse(r) THEN FALSE
    ELSE IF raise_for_status(r) THEN FALSE
    ELSE TRUE

\* main, lines 848-852.
HttpPostInfo ==
    /\ pc = "post"
    /\ \E r \in Responses :
         /\ response' = r
         /\ exit_status' = IF http_post_info(r) THEN Exited(0) ELSE Exited(1)
    /\ posts' = posts + 1
    /\ pc' = "exit"
    /\ UNCHANGED <<args, host, meta, called, sections, degraded, probed, failures,
                   cause, document, printed, inxi, machine_id, device_id, notMainVars>>

InitMain ==
    /\ pc = "prepare_inxi"
    /\ args \in [dry_run : BOOLEAN, telemetry : BOOLEAN]
    /\ host \in Hosts
    /\ machine_id \in {None, UsualMachineId}
    /\ device_id = None
    /\ meta = {}
    /\ called = {}
    /\ sections = {}
    /\ degraded = {}
    /\ probed = {}
    /\ failures = 0
    /\ cause = None
    /\ document = None
    /\ response = None
    /\ posts = 0
    /\ printed = FALSE
    /\ exit_status = None
    /\ DisksOff
    /\ ReconOff
    /\ BootOff
    /\ GuiOff

NextMain ==
    \/ MainPrepareInxi
    \/ GetDeviceData
    \/ DomainFunction
    \/ PrintDocument
    \/ HttpPostInfo

SpecMain == InitMain /\ [][NextMain]_vars

\* The runs in which every command answers, on every content of
\* /etc/machine-id.
InitIdentity ==
    /\ pc = "prepare_inxi"
    /\ args \in [dry_run : BOOLEAN, telemetry : BOOLEAN]
    /\ host \in Hosts
    /\ machine_id \in {None} \cup {[text |-> t] : t \in MachineIdFiles}
    /\ device_id = None
    /\ meta = {}
    /\ called = {}
    /\ sections = {}
    /\ degraded = {}
    /\ probed = {}
    /\ failures = MaxFailures
    /\ cause = None
    /\ document = None
    /\ response = None
    /\ posts = 0
    /\ printed = FALSE
    /\ exit_status = None
    /\ DisksOff
    /\ ReconOff
    /\ BootOff
    /\ GuiOff

SpecIdentity == InitIdentity /\ [][NextMain]_vars

\* The run under a scheduler that lets the process take every step it can.
FairMain == SpecMain /\ WF_vars(NextMain)

\* ------------------------------------------------------------------------
\* Claims about the run.
\* ------------------------------------------------------------------------

FullKeys == {"meta"} \cup AllSections

\* C6: with telemetry off get_device_data returns a document whose only key
\* is meta, holding version, timestamp and device_id, and no domain function
\* has been called nor any command run on the way; with telemetry on the
\* document it returns has the ten section keys besides meta.
C6_MinimalReportShape ==
    document # None =>
        IF ~args.telemetry
        THEN /\ document.keys = {"meta"}
             /\ {"version", "timestamp", "device_id"} \subseteq document.meta
             /\ called = {}
             /\ probed = {}
        ELSE /\ document.keys = FullKeys
             /\ called = AllSections

C6_Witness ==
    /\ pc = "exit"
    /\ ~args.telemetry
    /\ response # None
    /\ document = [meta |-> {"version", "timestamp", "device_id", "distro_id"},
                   keys |-> {"meta"}]

\* C7: a command of a domain function that ends with a non-zero status, is
\* missing, or prints nothing or something malformed makes no exception
\* leave the function: the run goes on, and a document that is returned with
\* telemetry on has all its sections.
C7_ProbeFailureStaysLocal ==
    /\ pc = "crashed" => cause.kind \notin {"nonzero", "malformed"}
    /\ (document # None /\ args.telemetry) => document.keys = FullKeys

\* C8: a command that runs into its timeout (inxi, os-prober direct and
\* elevated, pacman-mirrors --status) is given up alone: no exception leaves
\* the domain function, and the run goes on.
C8_TimeoutCancelsOnlyProbe ==
    pc = "crashed" => cause.kind # "timeout"

\* C9: the run always comes to its end, even when a tool never finishes by
\* itself.
C9_RunTerminates == <>(pc \in {"exit", "crashed"})

\* C10: when the document was sent, the process ends with status 0 exactly
\* when the collector answered with a 2xx; a transport error, a timeout and
\* every other status, 1xx and 3xx included, end it with a non-zero status.
C10_FailedSubmissionExitsNonZero ==
    (pc = "exit" /\ response # None) =>
        (exit_status = Exited(0) <=>
            (IsResponse(response) /\ 200 <= response.status_code
                                  /\ response.status_code < 300))

\* C11: requests.post is called at most once in a run and not again after a
\* failure; in a dry run it is not called at all; and it is called only
\* once the whole document has been returned by get_device_data and printed.
C11_SubmittedAtMostOnce ==
    /\ posts <= 1
    /\ args.dry_run => posts = 0
    /\ posts > 0 => (document # None /\ printed)
    /\ pc = "post" => (document # None /\ printed /\ posts = 0)

C11_Witness ==
    /\ pc = "exit"
    /\ posts = 1
    /\ printed
    /\ exit_status = Exited(1)

LscpuModelLines == SelectSeq(env.lscpu.lines, LAMBDA line : line.model_name)

\* C13: with no inxi cache, two model-name lines in lscpu's answer give the
\* model 'line1/line2', and a single one gives 'line1'.
C13_CpuFallbackPairs ==
    (Returned("get_cpu_info") /\ inxi = None) =>
        /\ Len(LscpuModelLines) = 2 =>
              Value.model = Concat(LscpuModelLines[1].parts[2],
                                   Concat(Str("/"), LscpuModelLines[2].parts[2]))
        /\ Len(LscpuModelLines) = 1 => Value.model = LscpuModelLines[1].parts[2]

C13_Witness ==
    /\ Returned("get_cpu_info")
    /\ inxi = None
    /\ Len(LscpuModelLines) = 2
    /\ Value.model = S(<<"Ryzen 7", "/", "Ryzen 7 CPU">>)

\* "inxi": inxi is not None, line 765 of get_device_data
meta_inxi == inxi # None

\* inxi was not found, or its call ended with a non-zero status, ran into
\* its timeout, or printed something that is not the list expected.
InxiFailed == irun \in {"missing", "timeout", "nonzero", "not json", "other json"}

\* C14: when inxi is missing or its call fails, the cache is empty after
\* prepare_inxi, meta.inxi is false, and no read of the cache by
\* get_cpu_info, get_graphics_info or get_desktop_info raises.
C14_FailedInxiLeavesCacheEmpty ==
    InxiFailed =>
        /\ inxi = None
        /\ ~meta_inxi
        /\ rpc = "raised" => ret.result.exc # "TypeError"

\* The direct run told of missing rights: its stderr holds one of the phrases.
PermissionFailure(result) ==
    \E indicator \in error_indicators : InText(indicator, result.stderr)

\* C15: sudo -n os-prober is run at most once in a detection, and only
\* after a direct run whose stderr holds one of the permission phrases; a
\* direct run that failed otherwise is not repeated elevated.
C15_ElevatedOnlyOnPermissionFailure ==
    /\ dpc = "elevated" => PermissionFailure(dres)
    /\ Cardinality({i \in DOMAIN dlog : dlog[i].cmd = "sudo -n os-prober"}) <= 1

\* The nodes of the tree lsblk printed: the block devices and their children.
LsblkNodes(tree) ==
    {tree.blockdevices[i] : i \in DOMAIN tree.blockdevices}
    \cup UNION {{tree.blockdevices[i].children[j] : j \in DOMAIN tree.blockdevices[i].children} :
                  i \in DOMAIN tree.blockdevices}

\* A node with an ntfs file system, in any case, of more than 20 GiB.
LargeNtfs(node) ==
    /\ node.fstype \in {Str("ntfs"), Str("NTFS")}
    /\ node.size # None
    /\ (node.size.gib > min_size_gb \/ (node.size.gib = min_size_gb /\ node.size.rem > 0))

\* C16: on a tree lsblk printed, the partition analysis answers true
\* exactly when some node is ntfs and larger than 20 GiB; an ntfs partition
\* of exactly 20 GiB or less is no evidence.
C16_WindowsIffLargeNtfs ==
    (dpc = "done" /\ LogHas("lsblk", {"tree"})) =>
        ((dret.site = "lsblk" /\ dret.result.value = TRUE)
            <=> \E node \in LsblkNodes(dres.stdout) : LargeNtfs(node))

\* ------------------------------------------------------------------------
\* More claims about the walker.
\* ------------------------------------------------------------------------

\* The entry just written for '/home' carries the subvol flag.
HomeIsSubvol == "subvol" \in DOMAIN results.home

\* C17, as stated: the '/home' entry is flagged subvol exactly when '/' has
\* been met in the same tree, on this node or on one visited before it.
C17_SubvolWhenRootSeenBefore ==
    (wpc = "entered" /\ HOME \in Top.block.mountpoints) =>
        (HomeIsSubvol <=> results.root # None)

\* C17, amended: the '/home' entry is flagged subvol=true exactly when the
\* node that carries '/home' carries '/' as well; a '/' met on another node
\* of the tree leaves the entry without the flag.
C17_SubvolWhenSameNodeHasRoot ==
    (wpc = "entered" /\ HOME \in Top.block.mountpoints) =>
        /\ HomeIsSubvol <=> ROOT \in Top.block.mountpoints
        /\ HomeIsSubvol => results.home.subvol = TRUE

C17_Witness ==
    /\ wpc = "entered"
    /\ Top.block.mountpoints = {ROOT, HOME}
    /\ HomeIsSubvol
    /\ results.home.subvol = TRUE

\* ------------------------------------------------------------------------
\* More claims about the reconciliation, checked under SpecRecon.
\* ------------------------------------------------------------------------

\* The output records inxi gave, before xrandr is read (lines 366-398).
InxiOutputs ==
    graphics_inxi_stage([compositor |-> get_compositor(env.ps), dri |-> None,
                         gpus |-> <<>>, outputs |-> <<>>]).value.outputs

\* The positions of the result list that xrandr appended.
FromXrandr == (Len(InxiOutputs) + 1)..Len(Value.outputs)

\* The names of the connected outputs of the text that have an active mode.
RECURSIVE ActiveNames(_, _)
ActiveNames(lines, mapped) ==
    IF lines = <<>> THEN {}
    ELSE LET line == Head(lines) IN
         IF line.kind = "disconnected" THEN ActiveNames(Tail(lines), None)
         ELSE IF line.kind = "connected"
         THEN ActiveNames(Tail(lines), line.words[1])
         ELSE IF line.kind = "mode" /\ mapped # None
         THEN {mapped} \cup ActiveNames(Tail(lines), mapped)
         ELSE ActiveNames(Tail(lines), mapped)

\* get_graphics_info read the text of xrandr and returned.
XrandrRead ==
    /\ Returned("get_graphics_info")
    /\ env.xrandr_which
    /\ env.xrandr # None

MaxClicks == 2

\* The values handed to get_device_data: a bool, or a dict.
PyBool(b) == [bool |-> b]
PyDict(d) == [dict |-> d]

\* Python's "not v" on those values: a dict is false only when it is empty.
py_not(v) == IF "bool" \in DOMAIN v THEN ~v.bool ELSE DOMAIN v.dict = {}

\* mddgui.py lines 15-19: the module global before run.
DefaultConfig == [telemetry |-> TRUE, enabled |-> FALSE, schedule |-> "1w"]

Schedules == {"1w", "2w", "4w"}

\* What write_config leaves in ~/.config/self.conf, or no file.
ConfFiles ==
    {None} \cup [telemetry : BOOLEAN, enabled : BOOLEAN, schedule : Schedules]

\* read_config, lines 253-259.
read_config(file) ==
    IF file # None THEN file
    ELSE [telemetry |-> TRUE, schedule |-> "1w", enabled |-> TRUE]

\* dict.update: the keys of d replace those of c.
update(c, d) ==
    [k \in DOMAIN c \cup DOMAIN d |-> IF k \in DOMAIN d THEN d[k] ELSE c[k]]

\* get_device_data, mdd.py lines 750-781, when every probe answers: the
\* minimal document when "not telemetry", the full one otherwise.
get_device_data(telemetry) ==
    IF py_not(telemetry)
    THEN [meta |-> {"version", "timestamp", "device_id", "distro_id"},
          keys |-> {"meta"}]
    ELSE [meta |-> {"version", "timestamp", "device_id", "distro_id", "release", "inxi"},
          keys |-> {"meta"} \cup AllSections]

\* generate_service_files, lines 207-235: the flag of ExecStart and the
\* period of the timer.
generate_service_files(c) ==
    [disable_telemetry |-> ~c.telemetry, schedule |-> c.schedule]

\* set_timer_state, lines 238-242.
set_timer_state(enable) == IF enable THEN "enabled" ELSE "disabled"

\* run, lines 261-263: the cache of inxi, then the file over the defaults.
GuiRun ==
    /\ gpc = "run"
    /\ \E run \in InxiRuns :
         /\ inxi' = prepare_inxi(run)
         /\ irun' = inxi_how(run)
    /\ config' = update(config, read_config(conf_file))
    /\ gpc' = "MDD"
    /\ UNCHANGED <<conf_file, sysdata, config_modified, checkEnableTimer, units, timer,
                   posted, clicks, notGuiVars>>

\* MDD.__init__, lines 24-124: the document for config["telemetry"].
MddInit ==
    /\ gpc = "MDD"
    /\ config_modified' = FALSE
    /\ checkEnableTimer' = FALSE
    /\ sysdata' = get_device_data(PyBool(config.telemetry))
    /\ gpc' = "set_config"
    /\ UNCHANGED <<config, conf_file, units, timer, posted, clicks, inxi, irun, notGuiVars>>

\* MDD.set_config, lines 126-144, called by run with the global config
\* itself: the document is asked for with the dict as the argument.
SetConfig ==
    /\ gpc = "set_config"
    /\ LET new_config == config
       IN /\ config' = update(config, new_config)
          /\ sysdata' = get_device_data(PyDict(new_config))
    /\ config_modified' = TRUE
    /\ checkEnableTimer' = IF config'.enabled THEN TRUE ELSE checkEnableTimer
    /\ gpc' = "shown"
    /\ UNCHANGED <<conf_file, units, timer, posted, clicks, inxi, irun, notGuiVars>>

\* opt_weekly_set, opt_biweekly_set, opt_monthly_set, lines 150-166.
opt_schedule_set(period) ==
    /\ gpc = "shown"
    /\ clicks < MaxClicks
    /\ clicks' = clicks + 1
    /\ config' = [config EXCEPT !.schedule = period]
    /\ units' = generate_service_files(config')
    /\ config_modified' = TRUE
    /\ UNCHANGED <<gpc, conf_file, sysdata, checkEnableTimer, timer, posted,
                   inxi, irun, notGuiVars>>

OptWeeklySet == opt_schedule_set("1w")

OptBiweeklySet == opt_schedule_set("2w")

OptMonthlySet == opt_schedule_set("4w")

\* enable_service, lines 168-172: the click has toggled the box.
EnableService ==
    /\ gpc = "shown"
    /\ clicks < MaxClicks
    /\ clicks' = clicks + 1
    /\ checkEnableTimer' = ~checkEnableTimer
    /\ config' = [config EXCEPT !.enabled = checkEnableTimer']
    /\ timer' = set_timer_state(config'.enabled)
    /\ config_modified' = TRUE
    /\ UNCHANGED <<gpc, conf_file, sysdata, units, posted, inxi, irun, notGuiVars>>

\* opt_system_ping_set (lines 182-192) and opt_system_info_set (194-204).
opt_system_set(telemetry) ==
    /\ gpc = "shown"
    /\ clicks < MaxClicks
    /\ clicks' = clicks + 1
    /\ config' = [config EXCEPT !.telemetry = telemetry]
    /\ config_modified' = TRUE
    /\ sysdata' = get_device_data(PyBool(config'.telemetry))
    /\ units' = generate_service_files(config')
    /\ UNCHANGED <<gpc, conf_file, checkEnableTimer, timer, posted, inxi, irun, notGuiVars>>

OptSystemPingSet == opt_system_set(FALSE)

OptSystemInfoSet == opt_system_set(TRUE)

\* accepted, lines 174-180: the document is posted, the config written when
\* it was modified, and the process exits.
Accepted ==
    /\ gpc = "shown"
    /\ posted' = IF sysdata # None THEN Append(posted, sysdata) ELSE posted
    /\ conf_file' = IF config_modified THEN config ELSE conf_file
    /\ gpc' = "exited"
    /\ UNCHANGED <<config, sysdata, config_modified, checkEnableTimer, units, timer,
                   clicks, inxi, irun, notGuiVars>>

\* rejected, lines 146-148.
Rejected ==
    /\ gpc = "shown"
    /\ gpc' = "exited"
    /\ UNCHANGED <<config, conf_file, sysdata, config_modified, checkEnableTimer, units,
                   timer, posted, clicks, inxi, irun, notGuiVars>>

InitGui ==
    /\ gpc = "run"
    /\ config = DefaultConfig
    /\ conf_file \in ConfFiles
    /\ sysdata = None
    /\ config_modified = FALSE
    /\ checkEnableTimer = FALSE
    /\ units = None
    /\ timer = "untouched"
    /\ posted = <<>>
    /\ clicks = 0
    /\ inxi = None
    /\ irun = "not run"
    /\ env = None
    /\ ret = None
    /\ rpc = "off"
    /\ DisksOff
    /\ BootOff
    /\ MainOff

NextGui ==
    \/ GuiRun
    \/ MddInit
    \/ SetConfig
    \/ OptWeeklySet
    \/ OptBiweeklySet
    \/ OptMonthlySet
    \/ EnableService
    \/ OptSystemPingSet
    \/ OptSystemInfoSet
    \/ Accepted
    \/ Rejected

SpecGui == InitGui /\ [][NextGui]_vars

\* ------------------------------------------------------------------------
\* Claims about the front-end, checked under SpecGui.
\* ------------------------------------------------------------------------

\* The document has sections besides meta.
HasHardware(doc) == doc.keys # {"meta"}

\* C19: once the window is shown, and after any clicks on Basic Ping and
\* System Info, the document the window holds, and the one accepted posts,
\* has hardware sections exactly when config["telemetry"] is true; a file
\* with telemetry false gives a document of meta alone.
C19_SysdataFollowsTelemetry ==
    /\ gpc = "shown" => (HasHardware(sysdata) <=> config.telemetry)
    /\ \A i \in DOMAIN posted : HasHardware(posted[i]) <=> config.telemetry

====
